---- MODULE Spec2Model ----
(***************************************************************************)
(* One run of examples/Question_answering_using_a_search_API.ipynb: query  *)
(* expansion, the search loop, deduplication by URL, the hypothetical      *)
(* answer, embeddings, dot-product scoring, the descending sort, the top-5 *)
(* projection and the streamed answer.  Every external call is two steps   *)
(* (the request is issued, the response arrives); the cells' in-memory     *)
(* statements are one step each.                                           *)
(*                                                                         *)
(* Numbers: an embedding component x is held as the integer x * Scale, so  *)
(* a dot product of two embeddings is held as (real value) * Scale * Scale.*)
(* Floating-point rounding is not modelled.                                *)
(***************************************************************************)
EXTENDS Integers, Sequences, FiniteSets, TLC

VARIABLES
    pc,                             \* the statement the run is at
    queries,                        \* queries
    qi,                             \* position of the for loop in queries
    result,                         \* result (the last search response)
    articles,                       \* articles
    url_map,                        \* the dict built by the dict comprehension
    error,                          \* the message of the raised exception
    hypothetical_answer,            \* hypothetical_answer
    hypothetical_answer_embedding,  \* hypothetical_answer_embedding
    article_embeddings,             \* article_embeddings
    cosine_similarities,            \* cosine_similarities
    sorted_articles,                \* sorted_articles
    formatted_top_results,          \* formatted_top_results
    completion,                     \* the streaming completion (chunks, cursor)
    text,                           \* text
    output,                         \* the cell's display area
    calls,                          \* every external request issued, in order
    inflight                        \* requests issued and not yet completed

vars == <<pc, queries, qi, result, articles, url_map, error,
          hypothetical_answer, hypothetical_answer_embedding,
          article_embeddings, cosine_similarities, sorted_articles,
          formatted_top_results, completion, text, output, calls, inflight>>

----------------------------------------------------------------------------
(* Bounds of the model *)

\* most queries the language model returns for query expansion
MaxGen == 1
\* most articles one search response carries
MaxResults == 2
\* most fragments of the streamed answer
MaxChunks == 2
\* most deduplicated articles the ranking stage starts from (InitRank)
MaxArticles == 6
\* fixed-point scale of an embedding component: 1.0 is held as Scale
Scale == 10

(* Program constants *)

\* sorted_articles[0:5]
TopK == 5
\* article['content'][0:100]
ContentPrefix == 100

USER_QUESTION ==
    "Who won the NBA championship? And who was the MVP? Tell me a bit about the last game."

Min(a, b) == IF a <= b THEN a ELSE b

\* all sequences over S of length 0..n
SeqUpTo(S, n) == UNION {[1..k -> S] : k \in 0..n}

----------------------------------------------------------------------------
(* What the collaborators can return *)

UrlNames == <<"u1", "u2", "u3", "u4", "u5", "u6", "u7", "u8">>

\* an article of the search endpoint: url i, in its revision rev
MkArticle(i, rev) ==
    [url         |-> UrlNames[i],
     title       |-> "title-" \o UrlNames[i] \o rev,
     description |-> "description-" \o UrlNames[i] \o rev,
     content     |-> <<"content", UrlNames[i], rev>>]

\* what the search loop's responses draw from: two URLs, the first of them
\* in two revisions (the same url with different title, description, content)
ArticlePool == {MkArticle(1, "a"), MkArticle(1, "b"), MkArticle(2, "a")}

Messages == {"apiKeyInvalid", "rateLimited"}

NoResult == [status |-> "none", message |-> "", articles |-> <<>>]

\* response.json() of the search endpoint: "ok" with the articles, or another
\* status with a message, with no article or with one (the code never reads
\* "articles" of such a response)
SearchResponses ==
    [status : {"ok"}, message : {""}, articles : SeqUpTo(ArticlePool, MaxResults)]
    \cup [status : {"error"}, message : Messages,
          articles : {<<>>} \cup {<<a>> : a \in ArticlePool}]

\* what the language model can answer to QUERIES_INPUT: text that json.loads
\* rejects, or {"queries": [...]} with any list, the question itself included
GeneratedQueries == {"NBA finals winner", USER_QUESTION}

ExpansionResponses ==
    [parses : {FALSE}, queries : {<<>>}]
    \cup [parses : {TRUE}, queries : SeqUpTo(GeneratedQueries, MaxGen)]

\* what the language model can answer to HA_INPUT
HypotheticalResponses ==
    {[parses |-> FALSE, hypotheticalAnswer |-> ""],
     [parses |-> TRUE, hypotheticalAnswer |-> "TEAM won. PLAYER was MVP."]}

\* embeddings the provider can return for the hypothetical answer
HaEmbeddings == {<<Scale, 0>>, <<0, Scale>>}

\* embeddings the provider can return for an article text: the two unit
\* vectors, and three vectors shorter than 1
ArticleEmbeddings == {<<Scale, 0>>, <<0, Scale>>, <<2, 0>>, <<9, 0>>, <<5, 0>>}

\* a chunk of the stream: its delta with or without a "content" key
Chunks == {[delta |-> [content |-> "a"]], [delta |-> [content |-> "b"]],
           [delta |-> [role |-> "assistant"]]}

NoCompletion == [chunks |-> <<>>, pos |-> 0]

----------------------------------------------------------------------------
(* The run's bookkeeping of external requests *)

Call(stage, arg) == [stage |-> stage, arg |-> arg]

\* a request is issued: logged, and in flight until its response arrives
Issue(stage, arg) ==
    /\ calls' = Append(calls, Call(stage, arg))
    /\ inflight' = inflight \cup {Len(calls) + 1}

\* the response of the latest request has arrived
Complete ==
    /\ inflight' = inflight \ {Len(calls)}
    /\ calls' = calls

\* an exception propagates out of the cell: the run stops
Raise(msg) ==
    /\ pc' = "failed"
    /\ error' = msg

----------------------------------------------------------------------------
(* Cell 6: query expansion *)

\* (variant) queries.insert(0, USER_QUESTION)
WithQuestionFirst(generated, question) == <<question>> \o generated

\* queries.append(USER_QUESTION)
WithQuestion(generated, question) == Append(generated, question)

ExpandCall ==
    /\ pc = "expand"
    /\ Issue("expand", USER_QUESTION)
    /\ pc' = "expand_wait"
    /\ UNCHANGED <<queries, qi, result, articles, url_map, error,
                   hypothetical_answer, hypothetical_answer_embedding,
                   article_embeddings, cosine_similarities, sorted_articles,
                   formatted_top_results, completion, text, output>>

ExpandReturn ==
    /\ pc = "expand_wait"
    /\ Complete
    /\ \E r \in ExpansionResponses :
         IF r.parses
         THEN /\ queries' = WithQuestion(r.queries, USER_QUESTION)
              /\ pc' = "search_loop"
              /\ error' = error
         ELSE /\ Raise("JSONDecodeError")
              /\ queries' = queries
    /\ UNCHANGED <<qi, result, articles, url_map,
                   hypothetical_answer, hypothetical_answer_embedding,
                   article_embeddings, cosine_similarities, sorted_articles,
                   formatted_top_results, completion, text, output>>

----------------------------------------------------------------------------
(* Cell 8: the search loop *)

\* (variant) the requests are fired without waiting for their responses
SearchCallAsync ==
    /\ pc = "search_loop"
    /\ qi <= Len(queries)
    /\ Issue("search", queries[qi])
    /\ qi' = qi + 1
    /\ UNCHANGED <<pc, queries, result, articles, url_map, error,
                   hypothetical_answer, hypothetical_answer_embedding,
                   article_embeddings, cosine_similarities, sorted_articles,
                   formatted_top_results, completion, text, output>>

\* result = search_news(query): the request goes out
SearchCall ==
    /\ pc = "search_loop"
    /\ qi <= Len(queries)
    /\ Issue("search", queries[qi])
    /\ pc' = "search_wait"
    /\ UNCHANGED <<queries, qi, result, articles, url_map, error,
                   hypothetical_answer, hypothetical_answer_embedding,
                   article_embeddings, cosine_similarities, sorted_articles,
                   formatted_top_results, completion, text, output>>

\* result = search_news(query): response.json() is bound to result
SearchReturn ==
    /\ pc = "search_wait"
    /\ Complete
    /\ \E r \in SearchResponses : result' = r
    /\ pc' = "search_check"
    /\ UNCHANGED <<queries, qi, articles, url_map, error,
                   hypothetical_answer, hypothetical_answer_embedding,
                   article_embeddings, cosine_similarities, sorted_articles,
                   formatted_top_results, completion, text, output>>

\* (variant) a failed query is skipped: else: continue
SearchCheckSkip ==
    /\ pc = "search_check"
    /\ IF result.status = "ok"
       THEN articles' = articles \o result.articles
       ELSE articles' = articles
    /\ qi' = qi + 1
    /\ result' = NoResult
    /\ pc' = "search_loop"
    /\ UNCHANGED <<queries, url_map, error,
                   hypothetical_answer, hypothetical_answer_embedding,
                   article_embeddings, cosine_similarities, sorted_articles,
                   formatted_top_results, completion, text, output,
                   calls, inflight>>

\* (variant) the accumulator is emptied before the exception is raised
SearchCheckClear ==
    /\ pc = "search_check"
    /\ IF result.status = "ok"
       THEN /\ articles' = articles \o result.articles
            /\ qi' = qi + 1
            /\ result' = NoResult
            /\ pc' = "search_loop"
            /\ error' = error
       ELSE /\ Raise(result.message)
            /\ articles' = <<>>
            /\ UNCHANGED <<qi, result>>
    /\ UNCHANGED <<queries, url_map,
                   hypothetical_answer, hypothetical_answer_embedding,
                   article_embeddings, cosine_similarities, sorted_articles,
                   formatted_top_results, completion, text, output,
                   calls, inflight>>

\* if result["status"] == "ok": articles = articles + result["articles"]
\* else: raise Exception(result["message"])
\* (result is dead after the "ok" branch: the next iteration overwrites it
\* before any read, so it is reset here)
SearchCheck ==
    /\ pc = "search_check"
    /\ IF result.status = "ok"
       THEN /\ articles' = articles \o result.articles
            /\ qi' = qi + 1
            /\ result' = NoResult
            /\ pc' = "search_loop"
            /\ error' = error
       ELSE /\ Raise(result.message)
            /\ UNCHANGED <<articles, qi, result>>
    /\ UNCHANGED <<queries, url_map,
                   hypothetical_answer, hypothetical_answer_embedding,
                   article_embeddings, cosine_similarities, sorted_articles,
                   formatted_top_results, completion, text, output,
                   calls, inflight>>

\* (variant) a key that is stored again moves behind all other keys, as with
\* d.pop(k, None); d[k] = v
DictSetMoveToEnd(d, k, v) ==
    Append(SelectSeq(d, LAMBDA entry : entry.key # k), [key |-> k, value |-> v])

\* {article["url"]: article for article in articles}: a dict keeps its keys in
\* the order of their first insertion; storing to a key that is present
\* replaces its value in place
DictSet(d, k, v) ==
    IF \E i \in 1..Len(d) : d[i].key = k
    THEN [i \in 1..Len(d) |-> IF d[i].key = k THEN [key |-> k, value |-> v] ELSE d[i]]
    ELSE Append(d, [key |-> k, value |-> v])

RECURSIVE UrlDictFrom(_, _)
UrlDictFrom(d, arts) ==
    IF arts = <<>> THEN d
    ELSE UrlDictFrom(DictSet(d, Head(arts).url, Head(arts)), Tail(arts))

\* (variant) the first record of a URL is kept: d.setdefault(url, article)
RECURSIVE UrlDictKeepFirstFrom(_, _)
UrlDictKeepFirstFrom(d, arts) ==
    IF arts = <<>> THEN d
    ELSE UrlDictKeepFirstFrom(
             IF \E i \in 1..Len(d) : d[i].key = Head(arts).url
             THEN d ELSE Append(d, [key |-> Head(arts).url, value |-> Head(arts)]),
             Tail(arts))

UrlDictKeepFirst(arts) == UrlDictKeepFirstFrom(<<>>, arts)

UrlDict(arts) == UrlDictFrom(<<>>, arts)

\* list(d.values())
DictValues(d) == [i \in 1..Len(d) |-> d[i].value]

\* the for loop is exhausted; the dict comprehension of
\* articles = list({...}.values()) is evaluated
RemoveDuplicates ==
    /\ pc = "search_loop"
    /\ qi > Len(queries)
    /\ url_map' = UrlDict(articles)
    /\ pc' = "materialize"
    /\ UNCHANGED <<queries, qi, result, articles, error,
                   hypothetical_answer, hypothetical_answer_embedding,
                   article_embeddings, cosine_similarities, sorted_articles,
                   formatted_top_results, completion, text, output,
                   calls, inflight>>

\* articles = list(....values()): the name is rebound, the dict is dropped
Materialize ==
    /\ pc = "materialize"
    /\ articles' = DictValues(url_map)
    /\ url_map' = <<>>
    /\ pc' = "hyde"
    /\ UNCHANGED <<queries, qi, result, error,
                   hypothetical_answer, hypothetical_answer_embedding,
                   article_embeddings, cosine_similarities, sorted_articles,
                   formatted_top_results, completion, text, output,
                   calls, inflight>>

----------------------------------------------------------------------------
(* Cell 10: the hypothetical answer *)

HydeCall ==
    /\ pc = "hyde"
    /\ Issue("hyde", USER_QUESTION)
    /\ pc' = "hyde_wait"
    /\ UNCHANGED <<queries, qi, result, articles, url_map, error,
                   hypothetical_answer, hypothetical_answer_embedding,
                   article_embeddings, cosine_similarities, sorted_articles,
                   formatted_top_results, completion, text, output>>

\* (variant) an answer that does not parse is asked for again
HydeReturnRetry ==
    /\ pc = "hyde_wait"
    /\ Complete
    /\ \E r \in HypotheticalResponses :
         IF r.parses
         THEN /\ hypothetical_answer' = r.hypotheticalAnswer
              /\ pc' = "embed_ha"
         ELSE /\ hypothetical_answer' = hypothetical_answer
              /\ pc' = "hyde"
    /\ UNCHANGED <<queries, qi, result, articles, url_map, error,
                   hypothetical_answer_embedding,
                   article_embeddings, cosine_similarities, sorted_articles,
                   formatted_top_results, completion, text, output>>

HydeReturn ==
    /\ pc = "hyde_wait"
    /\ Complete
    /\ \E r \in HypotheticalResponses :
         IF r.parses
         THEN /\ hypothetical_answer' = r.hypotheticalAnswer
              /\ pc' = "embed_ha"
              /\ error' = error
         ELSE /\ Raise("JSONDecodeError")
              /\ hypothetical_answer' = hypothetical_answer
    /\ UNCHANGED <<queries, qi, result, articles, url_map,
                   hypothetical_answer_embedding,
                   article_embeddings, cosine_similarities, sorted_articles,
                   formatted_top_results, completion, text, output>>

----------------------------------------------------------------------------
(* Cell 12: embeddings and scores *)

\* s[0:n]
Prefix(s, n) == SubSeq(s, 1, Min(n, Len(s)))

\* f"{article['title']} {article['description']} {article['content'][0:100]}"
ArticleText(a) == <<a.title, a.description, Prefix(a.content, ContentPrefix)>>

EmbedHaCall ==
    /\ pc = "embed_ha"
    /\ Issue("embed_ha", hypothetical_answer)
    /\ pc' = "embed_ha_wait"
    /\ UNCHANGED <<queries, qi, result, articles, url_map, error,
                   hypothetical_answer, hypothetical_answer_embedding,
                   article_embeddings, cosine_similarities, sorted_articles,
                   formatted_top_results, completion, text, output>>

\* hypothetical_answer_embedding = embeddings(hypothetical_answer)[0]
EmbedHaReturn ==
    /\ pc = "embed_ha_wait"
    /\ Complete
    /\ \E e \in HaEmbeddings : hypothetical_answer_embedding' = e
    /\ pc' = "embed_articles"
    /\ UNCHANGED <<queries, qi, result, articles, url_map, error,
                   hypothetical_answer,
                   article_embeddings, cosine_similarities, sorted_articles,
                   formatted_top_results, completion, text, output>>

\* article_embeddings = embeddings([... for article in articles]): one request
EmbedArticlesCall ==
    /\ pc = "embed_articles"
    /\ Issue("embed_articles", [i \in 1..Len(articles) |-> ArticleText(articles[i])])
    /\ pc' = "embed_articles_wait"
    /\ UNCHANGED <<queries, qi, result, articles, url_map, error,
                   hypothetical_answer, hypothetical_answer_embedding,
                   article_embeddings, cosine_similarities, sorted_articles,
                   formatted_top_results, completion, text, output>>

\* the provider returns one vector per input
EmbedArticlesReturn ==
    /\ pc = "embed_articles_wait"
    /\ Complete
    /\ \E es \in [1..Len(articles) -> ArticleEmbeddings] : article_embeddings' = es
    /\ pc' = "similarities"
    /\ UNCHANGED <<queries, qi, result, articles, url_map, error,
                   hypothetical_answer, hypothetical_answer_embedding,
                   cosine_similarities, sorted_articles,
                   formatted_top_results, completion, text, output>>

\* numpy.dot of two vectors of the same length
RECURSIVE dot(_, _)
dot(a, b) ==
    IF a = <<>> \/ b = <<>> THEN 0
    ELSE Head(a) * Head(b) + dot(Tail(a), Tail(b))

ISqrt(n) == CHOOSE r \in 0..n : r * r <= n /\ (r + 1) * (r + 1) > n

\* (variant) the full cosine similarity: the dot product over the norms
CosineNormalized(ha, e) ==
    IF dot(ha, ha) = 0 \/ dot(e, e) = 0 THEN 0
    ELSE (dot(ha, e) * Scale * Scale) \div (ISqrt(dot(ha, ha)) * ISqrt(dot(e, e)))

\* for article_embedding in article_embeddings:
\*     cosine_similarities.append(dot(hypothetical_answer_embedding, article_embedding))
Similarity(ha, e) == dot(ha, e)

ComputeSimilarities ==
    /\ pc = "similarities"
    /\ cosine_similarities' =
         [i \in 1..Len(article_embeddings) |->
            Similarity(hypothetical_answer_embedding, article_embeddings[i])]
    /\ pc' = "sort"
    /\ UNCHANGED <<queries, qi, result, articles, url_map, error,
                   hypothetical_answer, hypothetical_answer_embedding,
                   article_embeddings, sorted_articles,
                   formatted_top_results, completion, text, output,
                   calls, inflight>>

----------------------------------------------------------------------------
(* Cell 14: the sort *)

\* zip(articles, cosine_similarities)
Zip(a, b) == [i \in 1..Min(Len(a), Len(b)) |-> <<a[i], b[i]>>]

\* x goes behind every pair whose score is at least its own: equal scores keep
\* their order (sorted is stable, also with reverse=True)
RECURSIVE InsertDescending(_, _)
InsertDescending(s, x) ==
    IF s = <<>> THEN <<x>>
    ELSE IF Head(s)[2] >= x[2] THEN <<Head(s)>> \o InsertDescending(Tail(s), x)
    ELSE <<x>> \o s

RECURSIVE SortedInto(_, _)
SortedInto(done, rest) ==
    IF rest = <<>> THEN done
    ELSE SortedInto(InsertDescending(done, Head(rest)), Tail(rest))

RECURSIVE InsertAscending(_, _)
InsertAscending(s, x) ==
    IF s = <<>> THEN <<x>>
    ELSE IF Head(s)[2] <= x[2] THEN <<Head(s)>> \o InsertAscending(Tail(s), x)
    ELSE <<x>> \o s

RECURSIVE SortedAscendingInto(_, _)
SortedAscendingInto(done, rest) ==
    IF rest = <<>> THEN done
    ELSE SortedAscendingInto(InsertAscending(done, Head(rest)), Tail(rest))

\* (variant) reverse=True is left out
SortedAscending(scored) == SortedAscendingInto(<<>>, scored)

\* (variant) sorted(scored_articles, key=lambda x: x[1])[::-1]: descending,
\* with equal scores in the reverse of their original order
SortedAscendingReversed(scored) ==
    LET asc == SortedAscending(scored)
    IN [i \in 1..Len(asc) |-> asc[Len(asc) + 1 - i]]

\* sorted(scored_articles, key=lambda x: x[1], reverse=True)
SortedByScore(scored) == SortedInto(<<>>, scored)

SortArticles ==
    /\ pc = "sort"
    /\ sorted_articles' = SortedByScore(Zip(articles, cosine_similarities))
    /\ pc' = "format"
    /\ UNCHANGED <<queries, qi, result, articles, url_map, error,
                   hypothetical_answer, hypothetical_answer_embedding,
                   article_embeddings, cosine_similarities,
                   formatted_top_results, completion, text, output,
                   calls, inflight>>

----------------------------------------------------------------------------
(* Cell 16: the answer *)

\* {"title": ..., "description": ..., "url": ...}
Projected(article) ==
    [title |-> article.title, description |-> article.description,
     url |-> article.url]

\* (variant) the [0:5] slice is left out
TopResultsAll(sorted) == [i \in 1..Len(sorted) |-> Projected(sorted[i][1])]

\* [... for article, _score in sorted_articles[0:5]]
TopResults(sorted) ==
    [i \in 1..Min(TopK, Len(sorted)) |-> Projected(sorted[i][1])]

FormatTopResults ==
    /\ pc = "format"
    /\ formatted_top_results' = TopResults(sorted_articles)
    /\ pc' = "answer"
    /\ UNCHANGED <<queries, qi, result, articles, url_map, error,
                   hypothetical_answer, hypothetical_answer_embedding,
                   article_embeddings, cosine_similarities, sorted_articles,
                   completion, text, output, calls, inflight>>

\* ANSWER_INPUT holds formatted_top_results and USER_QUESTION
AnswerCall ==
    /\ pc = "answer"
    /\ Issue("answer", [top_results |-> formatted_top_results,
                        question |-> USER_QUESTION])
    /\ pc' = "answer_wait"
    /\ UNCHANGED <<queries, qi, result, articles, url_map, error,
                   hypothetical_answer, hypothetical_answer_embedding,
                   article_embeddings, cosine_similarities, sorted_articles,
                   formatted_top_results, completion, text, output>>

\* completion = openai.ChatCompletion.create(..., stream=True); text = ""
\* the request stays open until the stream is exhausted
AnswerStream ==
    /\ pc = "answer_wait"
    /\ \E cs \in SeqUpTo(Chunks, MaxChunks) :
         completion' = [chunks |-> cs, pos |-> 0]
    /\ text' = ""
    /\ pc' = "stream"
    /\ UNCHANGED <<queries, qi, result, articles, url_map, error,
                   hypothetical_answer, hypothetical_answer_embedding,
                   article_embeddings, cosine_similarities, sorted_articles,
                   formatted_top_results, output, calls, inflight>>

\* chunk.choices[0].delta.get("content", "")
DeltaGet(delta, key, default) ==
    IF key \in DOMAIN delta THEN delta[key] ELSE default

\* (variant) display.clear_output is left out
RedisplayAppend(shown, t) == Append(shown, t)

\* display.clear_output(wait=True); display.display(display.Markdown(text))
Redisplay(shown, t) == <<t>>

\* one iteration of: for chunk in completion
StreamChunk ==
    /\ pc = "stream"
    /\ completion.pos < Len(completion.chunks)
    /\ LET chunk == completion.chunks[completion.pos + 1]
           t == text \o DeltaGet(chunk.delta, "content", "")
       IN /\ text' = t
          /\ output' = Redisplay(output, t)
    /\ completion' = [completion EXCEPT !.pos = @ + 1]
    /\ UNCHANGED <<pc, queries, qi, result, articles, url_map, error,
                   hypothetical_answer, hypothetical_answer_embedding,
                   article_embeddings, cosine_similarities, sorted_articles,
                   formatted_top_results, calls, inflight>>

\* the stream is exhausted: the loop ends and the request is over
StreamEnd ==
    /\ pc = "stream"
    /\ completion.pos = Len(completion.chunks)
    /\ Complete
    /\ pc' = "done"
    /\ UNCHANGED <<queries, qi, result, articles, url_map, error,
                   hypothetical_answer, hypothetical_answer_embedding,
                   article_embeddings, cosine_similarities, sorted_articles,
                   formatted_top_results, completion, text, output>>

----------------------------------------------------------------------------
Init ==
    /\ pc = "expand"
    /\ queries = <<>>
    /\ qi = 1
    /\ result = NoResult
    /\ articles = <<>>
    /\ url_map = <<>>
    /\ error = ""
    /\ hypothetical_answer = ""
    /\ hypothetical_answer_embedding = <<>>
    /\ article_embeddings = <<>>
    /\ cosine_similarities = <<>>
    /\ sorted_articles = <<>>
    /\ formatted_top_results = <<>>
    /\ completion = NoCompletion
    /\ text = ""
    /\ output = <<>>
    /\ calls = <<>>
    /\ inflight = {}

Next ==
    \/ ExpandCall
    \/ ExpandReturn
    \/ SearchCall
    \/ SearchReturn
    \/ SearchCheck
    \/ RemoveDuplicates
    \/ Materialize
    \/ HydeCall
    \/ HydeReturn
    \/ EmbedHaCall
    \/ EmbedHaReturn
    \/ EmbedArticlesCall
    \/ EmbedArticlesReturn
    \/ ComputeSimilarities
    \/ SortArticles
    \/ FormatTopResults
    \/ AnswerCall
    \/ AnswerStream
    \/ StreamChunk
    \/ StreamEnd

Spec == Init /\ [][Next]_vars

----------------------------------------------------------------------------
(* The ranking and answer-input stages on their own: the run has expanded  *)
(* to the single query USER_QUESTION, one search (page size 50) returned n *)
(* articles with n distinct URLs, and deduplication left them as they were *)

InitRank ==
    /\ pc = "hyde"
    /\ queries = <<USER_QUESTION>>
    /\ qi = 2
    /\ result = NoResult
    /\ \E n \in 0..MaxArticles : articles = [i \in 1..n |-> MkArticle(i, "a")]
    /\ url_map = <<>>
    /\ error = ""
    /\ hypothetical_answer = ""
    /\ hypothetical_answer_embedding = <<>>
    /\ article_embeddings = <<>>
    /\ cosine_similarities = <<>>
    /\ sorted_articles = <<>>
    /\ formatted_top_results = <<>>
    /\ completion = NoCompletion
    /\ text = ""
    /\ output = <<>>
    /\ calls = <<Call("expand", USER_QUESTION), Call("search", USER_QUESTION)>>
    /\ inflight = {}

NextRank ==
    \/ HydeCall
    \/ HydeReturn
    \/ EmbedHaCall
    \/ EmbedHaReturn
    \/ EmbedArticlesCall
    \/ EmbedArticlesReturn
    \/ ComputeSimilarities
    \/ SortArticles
    \/ FormatTopResults
    \/ AnswerCall

SpecRank == InitRank /\ [][NextRank]_vars

----------------------------------------------------------------------------
(* Properties *)

\* the run stopped on the exception of the search loop
SearchFailed == pc = "failed" /\ calls # <<>> /\ calls[Len(calls)].stage = "search"

\* nothing behind the search loop has produced anything
NoLaterStageRan ==
    /\ url_map = <<>>
    /\ hypothetical_answer = ""
    /\ hypothetical_answer_embedding = <<>>
    /\ article_embeddings = <<>>
    /\ cosine_similarities = <<>>
    /\ sorted_articles = <<>>
    /\ formatted_top_results = <<>>
    /\ completion = NoCompletion
    /\ text = ""
    /\ output = <<>>

Urls(arts) == {arts[i].url : i \in 1..Len(arts)}

LastIndexOf(arts, u) ==
    CHOOSE i \in 1..Len(arts) :
        /\ arts[i].url = u
        /\ \A k \in (i + 1)..Len(arts) : arts[k].url # u

\* C1: when the dict comprehension has been evaluated over the accumulated
\* list, the values it is about to be replaced by hold exactly one article per
\* URL of the list, no article of a URL that is not in the list, and for each
\* URL the record of its last occurrence in the list
C1_Deduplication ==
    pc = "materialize" =>
        LET out == DictValues(url_map) IN
        /\ \A u \in Urls(articles) :
               Cardinality({j \in 1..Len(out) : out[j].url = u}) = 1
        /\ \A j \in 1..Len(out) : out[j].url \in Urls(articles)
        /\ \A j \in 1..Len(out) :
               out[j] = articles[LastIndexOf(articles, out[j].url)]

\* C1 witness: a URL occurs twice with different fields and the dict is built
C1_Witness ==
    /\ pc = "materialize"
    /\ \E i, k \in 1..Len(articles) :
           i < k /\ articles[i].url = articles[k].url /\ articles[i] # articles[k]
    /\ Cardinality(Urls(articles)) = 2

C2_Step ==
    /\ (pc = "search_check" /\ result.status # "ok") =>
           /\ pc' = "failed"
           /\ error' = result.message
           /\ articles' = articles
           /\ calls' = calls
    /\ SearchFailed' =>
           /\ NoLaterStageRan'
           /\ inflight' = {}
           /\ Len(calls') = qi' + 1
           /\ calls'[Len(calls')].arg = queries'[qi']
    /\ pc = "failed" => UNCHANGED vars

\* C2: a search response whose status is not "ok" stops the run with the
\* response's message as the error; the failed query adds nothing to the
\* articles, the request of the failed query is the last request ever issued,
\* and no later stage produces anything
C2_SearchFailurePropagates == [][C2_Step]_vars

\* C2 witness: the second query failed with a response that carried articles,
\* after a first query that had delivered some
C2_Witness ==
    /\ SearchFailed
    /\ error = "rateLimited"
    /\ result.articles # <<>>
    /\ articles # <<>>
    /\ qi = 2
    /\ qi = Len(queries)

\* C3 (as stated): after the abort the accumulator holds no articles
C3_NoPartialResultsKept == SearchFailed => articles = <<>>

C3_Step ==
    /\ (pc = "search_check" /\ result.status # "ok") =>
           /\ articles' = articles
           /\ SearchFailed'
    /\ pc = "failed" => articles' = articles
    /\ SearchFailed' => (url_map' = <<>> /\ sorted_articles' = <<>>
                         /\ formatted_top_results' = <<>>)

\* C3 (amended): when the k-th search fails, the articles of queries 1..k-1
\* stay in the accumulator exactly as they were, the failed query adds none,
\* and they are never deduplicated, ranked or formatted for the answer
C3_PartialResultsStayUnused == [][C3_Step]_vars

\* C3 witness: the run stopped on a failed search with articles accumulated
C3_Witness == SearchFailed /\ Len(articles) = MaxResults /\ qi = 2

\* C4: once query expansion has returned, the last query is the user's
\* question, whatever the language model generated
C4_QuestionIsLastQuery ==
    (pc \notin {"expand", "expand_wait"} /\ ~(pc = "failed" /\ Len(calls) = 1)) =>
        /\ queries # <<>>
        /\ queries[Len(queries)] = USER_QUESTION
        /\ \E i \in 1..Len(queries) : queries[i] = USER_QUESTION

\* C4 witness: the generated list already held the question
C4_Witness ==
    /\ pc = "search_loop"
    /\ Len(queries) = 2
    /\ queries[1] = USER_QUESTION

Ranked == pc \in {"format", "answer", "answer_wait", "stream", "done"}

\* C5: the ranked output holds every article exactly once, paired with the
\* score of its own embedding, in non-increasing order of score; the scores
\* 0.2, 0.9, 0.5 give the articles in the order 2nd, 3rd, 1st
C5_Ranking ==
    Ranked =>
        /\ Len(sorted_articles) = Len(articles)
        /\ \A i \in 1..Len(articles) :
               Cardinality({j \in 1..Len(sorted_articles) :
                   sorted_articles[j] = <<articles[i], cosine_similarities[i]>>}) = 1
        /\ \A j, k \in 1..Len(sorted_articles) :
               j < k => sorted_articles[j][2] >= sorted_articles[k][2]
        /\ cosine_similarities = <<2 * Scale, 9 * Scale, 5 * Scale>> =>
               [j \in 1..3 |-> sorted_articles[j][1]]
                   = <<articles[2], articles[3], articles[1]>>

\* C5 witness: three articles with the scores 0.2, 0.9, 0.5 are ranked
C5_Witness ==
    /\ Ranked
    /\ cosine_similarities = <<2 * Scale, 9 * Scale, 5 * Scale>>

Scored == pc \in {"sort", "format", "answer", "answer_wait", "stream", "done"}

IsUnit(v) == v[1] * v[1] + v[2] * v[2] = Scale * Scale

\* C6: the score of article i is the sum of the products of the components
\* of the hypothetical answer's embedding and the article's embedding, not
\* divided by anything: 1 for two identical unit vectors, 0 for two
\* orthogonal unit vectors, and less than 1 for a shorter parallel vector
C6_PlainDotProduct ==
    Scored =>
        /\ Len(cosine_similarities) = Len(article_embeddings)
        /\ \A i \in 1..Len(article_embeddings) :
            LET ha == hypothetical_answer_embedding
                e == article_embeddings[i]
            IN /\ cosine_similarities[i] = ha[1] * e[1] + ha[2] * e[2]
               /\ (IsUnit(ha) /\ e = ha) => cosine_similarities[i] = Scale * Scale
               /\ (IsUnit(ha) /\ IsUnit(e) /\ ha[1] * e[1] = 0 /\ ha[2] * e[2] = 0)
                      => cosine_similarities[i] = 0

\* C6 witness: scored against a unit vector, one article's embedding is that
\* same vector and the other's is a unit vector orthogonal to it
C6_Witness ==
    /\ Scored
    /\ IsUnit(hypothetical_answer_embedding)
    /\ \E i, j \in 1..Len(article_embeddings) :
           /\ article_embeddings[i] = hypothetical_answer_embedding
           /\ cosine_similarities[i] = Scale * Scale
           /\ IsUnit(article_embeddings[j])
           /\ article_embeddings[j] # hypothetical_answer_embedding
           /\ cosine_similarities[j] = 0

ExpectedStages(qs) ==
    <<"expand">> \o [i \in 1..Len(qs) |-> "search"]
        \o <<"hyde", "embed_ha", "embed_articles", "answer">>

C8_SearchesInParallel ==
    (pc = "search_wait" /\ qi > 1) => Cardinality(inflight) > 1

ContentOf(chunk) ==
    IF "content" \in DOMAIN chunk.delta THEN chunk.delta.content ELSE ""

RECURSIVE Concatenated(_)
Concatenated(chunks) ==
    IF chunks = <<>> THEN ""
    ELSE ContentOf(Head(chunks)) \o Concatenated(Tail(chunks))

\* C9: after the n-th fragment the text is the concatenation of fragments
\* 1..n (nothing for a fragment without content), the display holds that
\* text and nothing else, and when the loop has ended n is the number of
\* fragments
C9_StreamingDelivery ==
    pc \in {"stream", "done"} =>
        /\ text = Concatenated(SubSeq(completion.chunks, 1, completion.pos))
        /\ completion.pos >= 1 => output = <<text>>
        /\ completion.pos = 0 => output = <<>>
        /\ pc = "done" =>
               /\ completion.pos = Len(completion.chunks)
               /\ text = Concatenated(completion.chunks)

\* C9 witness: two fragments with content were delivered
C9_Witness ==
    /\ pc = "done"
    /\ completion.pos = 2
    /\ text = "ab"
    /\ output = <<"ab">>

Formatted == pc \in {"answer", "answer_wait", "stream", "done"}

\* C10: the answer input holds the first min(5, n) ranked articles, in ranked
\* order, each with its title, description and url and nothing else
C10_TopFive ==
    Formatted =>
        /\ Len(formatted_top_results) =
               (IF Len(sorted_articles) <= 5 THEN Len(sorted_articles) ELSE 5)
        /\ \A i \in 1..Len(formatted_top_results) :
               /\ DOMAIN formatted_top_results[i] = {"title", "description", "url"}
               /\ formatted_top_results[i].title = sorted_articles[i][1].title
               /\ formatted_top_results[i].description
                      = sorted_articles[i][1].description
               /\ formatted_top_results[i].url = sorted_articles[i][1].url
        /\ \A c \in 1..Len(calls) :
               calls[c].stage = "answer" =>
                   calls[c].arg.top_results = formatted_top_results

\* C10 witness: more than five articles were ranked and the request is out
C10_Witness ==
    /\ pc = "answer_wait"
    /\ Len(sorted_articles) > 5
    /\ Len(formatted_top_results) = 5
    /\ sorted_articles[1][2] > sorted_articles[Len(sorted_articles)][2]

\* the run stopped on the exception of json.loads
ParseFailed == pc = "failed" /\ error = "JSONDecodeError"

StageCalls(stage) == {i \in 1..Len(calls) : calls[i].stage = stage}

C11_Step ==
    /\ Cardinality(StageCalls("expand"))' <= 1
    /\ Cardinality(StageCalls("hyde"))' <= 1
    /\ ParseFailed' =>
           /\ inflight' = {}
           /\ calls'[Len(calls')].stage \in {"expand", "hyde"}
           /\ calls'[Len(calls')].stage = "expand" =>
                  /\ StageCalls("search")' = {}
                  /\ queries' = <<>>
                  /\ articles' = <<>>
           /\ (StageCalls("embed_ha") \cup StageCalls("embed_articles")
                  \cup StageCalls("answer"))' = {}
           /\ hypothetical_answer' = ""
           /\ hypothetical_answer_embedding' = <<>>
           /\ article_embeddings' = <<>>
           /\ cosine_similarities' = <<>>
           /\ sorted_articles' = <<>>
           /\ formatted_top_results' = <<>>
           /\ completion' = NoCompletion
           /\ output' = <<>>
    /\ pc = "failed" => UNCHANGED vars

\* C11: the text-generation capability is asked at most once for the queries
\* and at most once for the hypothetical answer; when its text does not
\* parse the run stops there for good: after a failed query expansion no
\* search request has been issued, after a failed hypothetical answer no
\* embedding or answer request has been issued and nothing is ranked
C11_MalformedResponseStopsRun == [][C11_Step]_vars

\* C11 witness: the hypothetical answer did not parse, after a search loop
\* over two queries that had found articles
C11_Witness ==
    /\ ParseFailed
    /\ calls[Len(calls)].stage = "hyde"
    /\ Len(queries) = 2
    /\ articles # <<>>

\* the place of article i in the ranked output (the URLs are distinct)
RankOf(i) ==
    CHOOSE j \in 1..Len(sorted_articles) :
        sorted_articles[j][1].url = articles[i].url

\* the place in the deduplicated sequence of the article ranked j-th
IndexOfRanked(j) ==
    CHOOSE i \in 1..Len(articles) :
        articles[i].url = sorted_articles[j][1].url

\* C12: two articles with equal scores are ranked in the order they have in
\* the deduplicated sequence, so that the ranked sequence is the one sequence
\* in which a pair comes before another only when its score is higher, or
\* is equal and its article comes first in the deduplicated sequence
C12_StableTies ==
    Ranked =>
        /\ Len(sorted_articles) = Len(articles)
        /\ \A i, k \in 1..Len(articles) :
               (i < k /\ cosine_similarities[i] = cosine_similarities[k])
                   => RankOf(i) < RankOf(k)
        /\ \A j, k \in 1..Len(sorted_articles) :
               j < k =>
                   \/ sorted_articles[j][2] > sorted_articles[k][2]
                   \/ /\ sorted_articles[j][2] = sorted_articles[k][2]
                      /\ IndexOfRanked(j) < IndexOfRanked(k)

\* C12 witness: the first and the third article tie below the second
C12_Witness ==
    /\ Ranked
    /\ cosine_similarities = <<5 * Scale, 9 * Scale, 5 * Scale>>
    /\ [j \in 1..3 |-> sorted_articles[j][1]]
           = <<articles[2], articles[1], articles[3]>>

FirstIndexOf(arts, u) ==
    CHOOSE i \in 1..Len(arts) :
        /\ arts[i].url = u
        /\ \A k \in 1..(i - 1) : arts[k].url # u

\* C13: the values of the dict come in the order in which their URLs first
\* occur in the accumulated list, each being the record of the URL's last
\* occurrence: a repeated URL keeps the place of its first occurrence
C13_FirstOccurrenceOrder ==
    pc = "materialize" =>
        LET out == DictValues(url_map) IN
        /\ \A j, k \in 1..Len(out) :
               j < k => FirstIndexOf(articles, out[j].url)
                            < FirstIndexOf(articles, out[k].url)
        /\ \A j \in 1..Len(out) :
               out[j] = articles[LastIndexOf(articles, out[j].url)]

\* C13 witness: a URL is seen, then another, then the first again with other
\* fields; the first URL stays first and carries the later record
C13_Witness ==
    /\ pc = "materialize"
    /\ Len(articles) = 3
    /\ articles[1].url = articles[3].url
    /\ articles[1] # articles[3]
    /\ articles[2].url # articles[1].url
    /\ DictValues(url_map) = <<articles[3], articles[2]>>

====
